---- MODULE Spec2Model ----
(***************************************************************************)
(* Collision subsystem of InteractiveContentsLearning:                     *)
(*   OBB (src/src/collision/OBB.ts), AkashicCollisionSystem                *)
(*   (src/unnamed/part_002) and HybridCollisionSystem                      *)
(*   (src/src/collision/ThreeDAkashicCollision.ts, lines 272-621).         *)
(*                                                                         *)
(* Numbers.  The program computes in IEEE doubles; the model computes the  *)
(* same expressions exactly over the rationals:                            *)
(*   - a point is [n |-> <<x,y,z>>, d |-> k], meaning n/k;                 *)
(*   - the entries of a Matrix3 are integers counted in fifths, so that    *)
(*     the rotations by the 3-4-5 angle (cos = 3/5, sin = 4/5) are exact;  *)
(*   - a normalized axis is kept as a primitive integer direction w and    *)
(*     stands for w / sqrt(w.w); projections on it are integers counted in *)
(*     units of 1 / (5 * d * sqrt(w.w)).                                   *)
(***************************************************************************)
EXTENDS Integers, Sequences, FiniteSets, TLC

\* ------------------------------------------------------------------ bounds

\* Mesh positions of the pipeline lie on the X axis, at 0..MaxCoord.
MaxCoord == 2

\* Box centres of the SAT specification lie in (0..MaxSatCoord)^3.
MaxSatCoord == 3

\* resolveCollision is called at most MaxResolves times.
MaxResolves == 1

\* The debug meshes alive at once (toggleDebugOBB and addObject make them).
MaxDebugMeshes == 3

\* The largest width and depth of a rectangle handed to createAABB.
MaxRect == 2

\* ------------------------------------------------------- integer utilities

Abs(x) == IF x < 0 THEN -x ELSE x

Min2(a, b) == IF a < b THEN a ELSE b

Max2(a, b) == IF a > b THEN a ELSE b

RECURSIVE Gcd(_, _)
Gcd(a, b) == IF b = 0 THEN a ELSE Gcd(b, a % b)

Gcd3(v) == Gcd(Gcd(Abs(v[1]), Abs(v[2])), Abs(v[3]))

\* The exact square root of a perfect square (Math.sqrt on the values met).
ISqrt(n) == CHOOSE k \in 0..n : k * k = n

IsSquare(n) == \E k \in 0..n : k * k = n

\* ------------------------------------------------------------ THREE.Vector3

Dot(a, b) == a[1] * b[1] + a[2] * b[2] + a[3] * b[3]

Cross(a, b) ==
  << a[2] * b[3] - a[3] * b[2],
     a[3] * b[1] - a[1] * b[3],
     a[1] * b[2] - a[2] * b[1] >>

VAdd(a, b) == << a[1] + b[1], a[2] + b[2], a[3] + b[3] >>

VSub(a, b) == << a[1] - b[1], a[2] - b[2], a[3] - b[3] >>

VScale(k, a) == << k * a[1], k * a[2], k * a[3] >>

\* Fault variant of VNeg: the vector is left as it is.
VKept(a) == a

VNeg(a) == << -a[1], -a[2], -a[3] >>

Zero3 == << 0, 0, 0 >>

\* A rational point n/d, reduced to lowest terms with d > 0.
Pt(n, d) ==
  LET g == Gcd(Gcd3(n), d)
  IN  [n |-> << n[1] \div g, n[2] \div g, n[3] \div g >>, d |-> d \div g]

PtAdd(p, q) == Pt(VAdd(VScale(q.d, p.n), VScale(p.d, q.n)), p.d * q.d)

PtSub(p, q) == Pt(VSub(VScale(q.d, p.n), VScale(p.d, q.n)), p.d * q.d)

Origin == [n |-> Zero3, d |-> 1]

\* A rational number n/d, reduced to lowest terms with d > 0.
Rat(n, d) ==
  LET g == Gcd(Abs(n), d)
  IN  [n |-> n \div g, d |-> d \div g]

RatAdd(a, b) == Rat(a.n * b.d + b.n * a.d, a.d * b.d)

RatSub(a, b) == Rat(a.n * b.d - b.n * a.d, a.d * b.d)

RatLess(a, b) == a.n * b.d < b.n * a.d

RatMin(a, b) == IF RatLess(a, b) THEN a ELSE b

RatMax(a, b) == IF RatLess(b, a) THEN a ELSE b

RatZero == [n |-> 0, d |-> 1]

\* ------------------------------------------------------------ THREE.Matrix3

\* The fixed-point unit of matrix entries: an entry e stands for e / Fifth.
Fifth == 5

Identity3 == << << 5, 0, 0 >>, << 0, 5, 0 >>, << 0, 0, 5 >> >>

\* Columns of the rotation matrices (Matrix4.makeRotationX / makeRotationY
\* with cos = 3/5, sin = 4/5), in fifths.
RotationMatrix(r) ==
  CASE r = "I" -> Identity3
    [] r = "X" -> << << 5, 0, 0 >>, << 0, 3, 4 >>, << 0, -4, 3 >> >>
    [] r = "Y" -> << << 3, 0, -4 >>, << 0, 5, 0 >>, << 4, 0, 3 >> >>

\* Matrix3 * Vector3 (Vector3.applyMatrix3), the result in fifths.
ApplyMatrix3(m, v) ==
  VAdd(VAdd(VScale(v[1], m[1]), VScale(v[2], m[2])), VScale(v[3], m[3]))

\* ------------------------------------------------------------ THREE.Matrix4

\* Matrix4.compose(position, quaternion, scale): the upper 3x3 block is
\* R * diag(scale), the translation is the position.
Compose(position, rotation, scale) ==
  LET R == RotationMatrix(rotation)
  IN  [m |-> << VScale(scale[1], R[1]), VScale(scale[2], R[2]),
                VScale(scale[3], R[3]) >>,
       t |-> position]

\* matrixWorld of a newly constructed Object3D.
IdentityMatrix4 == [m |-> Identity3, t |-> Origin]

\* Vector3.applyMatrix4 on a point p: m * p + t.
ApplyMatrix4(p, mw) ==
  PtAdd(Pt(ApplyMatrix3(mw.m, p.n), Fifth * p.d), mw.t)

\* Vector3.setFromMatrixScale: the lengths of the three columns.
MatrixScale(mw) ==
  << ISqrt(Dot(mw.m[1], mw.m[1])) \div Fifth,
     ISqrt(Dot(mw.m[2], mw.m[2])) \div Fifth,
     ISqrt(Dot(mw.m[3], mw.m[3])) \div Fifth >>

\* ---------------------------------------------------------------- OBB.ts

\* Half extents are integers counted in halves (size * 0.5).
Half == 2

\* OBB.fromMesh: centre, half extents and orientation from the geometry's
\* bounding box and the mesh's matrixWorld AS IT STANDS (fromMesh does not
\* update it).  boundingBox is [min, max].
FromMesh(boundingBox, matrixWorld) ==
  LET center == Pt(VAdd(boundingBox.min, boundingBox.max), 2)
      size   == VSub(boundingBox.max, boundingBox.min)
      scale  == MatrixScale(matrixWorld)
  IN  [center      |-> ApplyMatrix4(center, matrixWorld),
       halfExtents |-> << size[1] * scale[1], size[2] * scale[2],
                          size[3] * scale[3] >>,
       orientation |-> matrixWorld.m]

\* OBB.getAxes: the orientation applied to the three basis vectors.
GetAxes(obb) ==
  << ApplyMatrix3(obb.orientation, << 1, 0, 0 >>) ,
     ApplyMatrix3(obb.orientation, << 0, 1, 0 >>) ,
     ApplyMatrix3(obb.orientation, << 0, 0, 1 >>) >>

\* Fault variant of ExtentOn: the extent summed without Math.abs.
ExtentOnSigned(obb, w) ==
  LET axes == GetAxes(obb)
  IN  Dot(axes[1], w) * obb.halfExtents[1]
    + Dot(axes[2], w) * obb.halfExtents[2]
    + Dot(axes[3], w) * obb.halfExtents[3]

\* The sum of OBB.projectOnAxis before the division by 10 * sqrt(w.w).
ExtentOn(obb, w) ==
  LET axes == GetAxes(obb)
  IN  Abs(Dot(axes[1], w) * obb.halfExtents[1])
    + Abs(Dot(axes[2], w) * obb.halfExtents[2])
    + Abs(Dot(axes[3], w) * obb.halfExtents[3])

\* OBB.projectOnAxis on the unit axis w / sqrt(w.w): min and max counted in
\* units of 1 / (10 * d * sqrt(w.w)), d the denominator of the centre.
ProjectOnAxis(obb, w) ==
  LET centerProjection == Fifth * Half * Dot(obb.center.n, w)
      extent           == obb.center.d * ExtentOn(obb, w)
  IN  [min |-> centerProjection - extent,
       max |-> centerProjection + extent,
       d   |-> obb.center.d]

\* min(max1, max2) - max(min1, min2), in units of 1/(10 * d1 * d2 * sqrt(w.w)).
Overlap(p1, p2) ==
  Min2(p1.max * p2.d, p2.max * p1.d) - Max2(p1.min * p2.d, p2.min * p1.d)

\* 1 / 1e-6, the epsilon of OBB.intersects and getCrossProductAxes.
EpsilonInverse == 1000000

\* A candidate axis is [v, u]: the vector v / u.
\* lengthSq() < 1e-6
LengthSqBelowEps(c) ==
  LET n == Dot(c.v, c.v)
      q == c.u * c.u
  IN  n < q /\ n * EpsilonInverse < q

\* lengthSq() > 1e-6
LengthSqAboveEps(c) ==
  LET n == Dot(c.v, c.v)
      q == c.u * c.u
  IN  n >= q \/ n * EpsilonInverse > q

\* Vector3.normalize: the unit vector w / sqrt(w.w), w the primitive
\* integer direction of c.
Normalize(c) ==
  LET g == Gcd3(c.v)
  IN  << c.v[1] \div g, c.v[2] \div g, c.v[3] \div g >>

\* Fault variant of GetCrossProductAxes: only the six face axes are tested.
NoCrossProductAxes(axes1, axes2) == << >>

\* OBB.getCrossProductAxes: the cross products of every axis of the first
\* box with every axis of the second, those of squared length > 1e-6 kept.
GetCrossProductAxes(axes1, axes2) ==
  LET all == [k \in 1..9 |->
                 [v |-> Cross(axes1[((k - 1) \div 3) + 1],
                              axes2[((k - 1) % 3) + 1]),
                  u |-> Fifth * Fifth]]
  IN  SelectSeq(all, LengthSqAboveEps)

\* Fault variant of AllAxes: the face axes of the other box are left out.
AllAxesOwnFaces(this, other) ==
  LET axes1 == GetAxes(this)
      axes2 == GetAxes(other)
  IN  [k \in 1..3 |-> [v |-> axes1[k], u |-> Fifth]]
      \o GetCrossProductAxes(axes1, axes2)

\* The 15 (or fewer) candidate axes of OBB.intersects, in the code's order.
AllAxes(this, other) ==
  LET axes1 == GetAxes(this)
      axes2 == GetAxes(other)
  IN  [k \in 1..3 |-> [v |-> axes1[k], u |-> Fifth]]
      \o [k \in 1..3 |-> [v |-> axes2[k], u |-> Fifth]]
      \o GetCrossProductAxes(axes1, axes2)

\* o1 / sqrt(k1) < o2 / sqrt(k2) for overlaps o1, o2 > 0.
LessOverlap(o1, k1, o2, k2) ==
  IF k1 = k2 THEN o1 < o2
  ELSE IF IsSquare(k1) /\ IsSquare(k2)
       THEN o1 * ISqrt(k2) < o2 * ISqrt(k1)
       ELSE o1 * o1 * k2 < o2 * o2 * k1

\* The largest r <= r0 with r * r dividing k.
RECURSIVE SquarePartFrom(_, _)
SquarePartFrom(k, r0) ==
  IF k % (r0 * r0) = 0 THEN r0 ELSE SquarePartFrom(k, r0 - 1)

RECURSIVE CeilSqrtFrom(_, _)
CeilSqrtFrom(k, r) == IF r * r >= k THEN r ELSE CeilSqrtFrom(k, r + 1)

\* The largest r with r * r dividing k.
SquarePart(k) == SquarePartFrom(k, CeilSqrtFrom(k, 1))

\* The number o / (den * sqrt(k)) in canonical form num / (den * sqrt(k)):
\* num/den in lowest terms, k square-free.
Depth(o, den, k) ==
  LET r == SquarePart(k)
      g == Gcd(Abs(o), den * r)
  IN  [num |-> o \div g, den |-> (den * r) \div g, k |-> k \div (r * r)]

ZeroDepth == [num |-> 0, den |-> 1, k |-> 1]

\* Fault variant of CalculateContactPoint: the average of the two centres.
ContactAtCentres(this, other, w) ==
  LET sum == PtAdd(this.center, other.center)
  IN  Pt(sum.n, 2 * sum.d)

\* OBB.calculateContactPoint, on the unit axis w / sqrt(w.w).
CalculateContactPoint(this, other, w) ==
  LET thisProjection  == ProjectOnAxis(this, w)
      otherProjection == ProjectOnAxis(other, w)
      k               == Dot(w, w)
  IN  IF thisProjection.max * otherProjection.d
           < otherProjection.max * thisProjection.d
      THEN PtAdd(this.center,
                 Pt(VScale(ExtentOn(this, w), w), Fifth * Half * k))
      ELSE PtAdd(other.center,
                 Pt(VScale(ExtentOn(other, w), w), Fifth * Half * k))

\* The result of the loop of OBB.intersects from candidate i on.
\* best is the minimum so far: [found, o, w]; tested counts the axes
\* projected so far.
RECURSIVE SatLoop(_, _, _, _, _, _)
SatLoop(this, other, allAxes, i, best, tested) ==
  IF i > Len(allAxes)
  THEN IF ~best.found
       THEN \* separatingAxis is null: calculateContactPoint dereferences it
            [outcome |-> "TypeError", isColliding |-> FALSE,
             penetrationDepth |-> ZeroDepth, separatingAxis |-> Zero3,
             contactPoint |-> Origin, tested |-> tested]
       ELSE LET w == best.w
                centerDifference == PtSub(other.center, this.center)
            IN  [outcome |-> "colliding", isColliding |-> TRUE,
                 penetrationDepth |->
                   Depth(best.o,
                         Fifth * Half * this.center.d * other.center.d,
                         Dot(w, w)),
                 separatingAxis |->
                   IF Dot(w, centerDifference.n) < 0 THEN VNeg(w) ELSE w,
                 contactPoint |-> CalculateContactPoint(this, other, w),
                 tested |-> tested]
  ELSE IF LengthSqBelowEps(allAxes[i])
       THEN SatLoop(this, other, allAxes, i + 1, best, tested)
       ELSE LET axis    == Normalize(allAxes[i])
                overlap == Overlap(ProjectOnAxis(this, axis),
                                   ProjectOnAxis(other, axis))
            IN  IF overlap <= 0
                THEN [outcome |-> "separated", isColliding |-> FALSE,
                      penetrationDepth |-> ZeroDepth,
                      separatingAxis |-> axis,
                      contactPoint |-> Origin, tested |-> tested + 1]
                ELSE IF ~best.found
                        \/ LessOverlap(overlap, Dot(axis, axis),
                                       best.o, Dot(best.w, best.w))
                     THEN SatLoop(this, other, allAxes, i + 1,
                                  [found |-> TRUE, o |-> overlap, w |-> axis],
                                  tested + 1)
                     ELSE SatLoop(this, other, allAxes, i + 1, best,
                                  tested + 1)

\* OBB.intersects.
Intersects(this, other) ==
  SatLoop(this, other, AllAxes(this, other), 1,
          [found |-> FALSE, o |-> 0, w |-> Zero3], 0)

\* Infinity and -Infinity, as rationals of denominator 0.
PosInfinity == [n |-> 1, d |-> 0]

NegInfinity == [n |-> -1, d |-> 0]

\* The slab loop of OBB.intersectsRay from axis i on.  A ray is
\* [origin, direction], the direction an integer unit vector; tMin and tMax
\* are rationals or infinities.  The result is [hit, distance, point].
RECURSIVE RaySlabs(_, _, _, _, _)
RaySlabs(obb, ray, i, tMin, tMax) ==
  LET null == [hit |-> FALSE, distance |-> RatZero, point |-> Origin]
  IN
  IF i > 3
  THEN LET distance == IF RatLess(RatZero, tMin) THEN tMin ELSE tMax
       IN  IF RatLess(distance, RatZero) THEN null
           ELSE [hit |-> TRUE, distance |-> distance,
                 point |->
                   IF distance.d = 0
                   THEN \* origin + direction * Infinity is not a point
                        [n |-> ray.direction, d |-> 0]
                   ELSE PtAdd(ray.origin,
                              Pt(VScale(distance.n, ray.direction),
                                 distance.d))]
  ELSE LET axis        == GetAxes(obb)[i]
           rayToCenter == PtSub(obb.center, ray.origin)
           \* rayDotAxis = D / 5, centerDotAxis = C / (5 * d),
           \* halfExtent = h / 2
           D == Dot(ray.direction, axis)
           C == Dot(rayToCenter.n, axis)
           d == rayToCenter.d
           h == obb.halfExtents[i]
       IN  IF Abs(D) * EpsilonInverse < Fifth
           THEN IF Half * Abs(C) > Fifth * d * h
                THEN null
                ELSE RaySlabs(obb, ray, i + 1, tMin, tMax)
           ELSE LET s     == IF D < 0 THEN -1 ELSE 1
                    t1    == Rat(s * (Half * C - Fifth * d * h),
                                 s * Half * d * D)
                    t2    == Rat(s * (Half * C + Fifth * d * h),
                                 s * Half * d * D)
                    tNear == RatMin(t1, t2)
                    tFar  == RatMax(t1, t2)
                    lo    == RatMax(tMin, tNear)
                    hi    == RatMin(tMax, tFar)
                IN  IF RatLess(hi, lo) THEN null
                    ELSE RaySlabs(obb, ray, i + 1, lo, hi)

\* OBB.intersectsRay.
IntersectsRay(obb, ray) == RaySlabs(obb, ray, 1, NegInfinity, PosInfinity)

\* OBB.containsPoint: the offset of the point from the centre, projected on
\* each axis as getAxes returns it, against the half extent.
ContainsPoint(obb, point) ==
  LET localPoint == PtSub(point, obb.center)
      axes       == GetAxes(obb)
  IN  \A i \in 1..3 :
        ~(Half * Abs(Dot(localPoint.n, axes[i]))
            > Fifth * localPoint.d * obb.halfExtents[i])

\* ------------------------------------------------------------------ state

VARIABLES
  mesh,              \* the external THREE.Mesh objects: handle -> fields
  objects,           \* HybridCollisionSystem.objects (a Map, in key order)
  bodies,            \* AkashicCollisionSystem.bodies (a Map, in key order)
  collisionResults,  \* HybridCollisionSystem.collisionResults
  ret,               \* the last call: checkCollisions, resolveCollision or
                     \* any other, and whether it threw
  log,               \* the steps of the checkCollisions() call just made
  resolves,          \* the number of resolveCollision calls so far
  boxA, boxB,        \* two OBBs (the SAT specification)
  satAB, satBA,      \* A.intersects(B) and B.intersects(A), once called
  showDebugOBB,      \* HybridCollisionSystem.showDebugOBB
  debugMeshes,       \* HybridCollisionSystem.debugMeshes (a Map, in key
                     \* order): id -> the debug mesh made for it
  scene,             \* the debug meshes among the children of the scene
  selectedObject,    \* the demo's selectedObject: an id or "null"
  shapes             \* the demo's shapes: id -> the state its material shows

vars == << mesh, objects, bodies, collisionResults, ret, log, resolves,
           boxA, boxB, satAB, satBA, showDebugOBB, debugMeshes, scene,
           selectedObject, shapes >>

debugVars == << showDebugOBB, debugMeshes, scene >>

demoVars == << selectedObject, shapes >>

appVars == << debugVars, demoVars >>

pipelineVars == << mesh, objects, bodies, collisionResults, ret, log,
                   resolves, appVars >>

satVars == << boxA, boxB, satAB, satBA >>

\* Geometry bounding boxes: a cube of half extent 1, a brick twice as long
\* and a flat (zero height) plate.
Cube == [min |-> << -1, -1, -1 >>, max |-> << 1, 1, 1 >>]

Brick == [min |-> << -2, -1, -1 >>, max |-> << 2, 1, 1 >>]

Plate == [min |-> << -2, 0, -1 >>, max |-> << 2, 0, 1 >>]

NoResult ==
  [outcome |-> "none", isColliding |-> FALSE, penetrationDepth |-> ZeroDepth,
   separatingAxis |-> Zero3, contactPoint |-> Origin, tested |-> 0]

\* ------------------------------------------------------------- JS Map

\* A Map is the sequence of its entries in insertion order; an entry is a
\* record with an id field (the key).
MapHas(map, id) == \E k \in 1..Len(map) : map[k].id = id

MapGet(map, id) == map[CHOOSE k \in 1..Len(map) : map[k].id = id]

\* Map.set: an existing key keeps its place, a new key is appended.
MapSet(map, entry) ==
  IF MapHas(map, entry.id)
  THEN [k \in 1..Len(map) |-> IF map[k].id = entry.id THEN entry ELSE map[k]]
  ELSE Append(map, entry)

\* Fault variant of MapDelete: an unknown key evicts the oldest entry.
MapDeleteOrOldest(map, id) ==
  IF \E k \in 1..Len(map) : map[k].id = id
  THEN SelectSeq(map, LAMBDA e : e.id # id)
  ELSE IF map = << >> THEN map ELSE Tail(map)

MapDelete(map, id) == SelectSeq(map, LAMBDA e : e.id # id)

MapKeys(map) == { map[k].id : k \in 1..Len(map) }

\* ------------------------------------------------------------ THREE.Mesh

\* Object3D.updateWorldMatrix(false, false) on a mesh whose parent (the
\* scene) has the identity transform: matrixWorld := compose(position,
\* rotation, scale).
UpdateWorldMatrix(m) ==
  [m EXCEPT !.matrixWorld = Compose(m.position, m.rotation, m.scale)]

\* The world AABB Box3.setFromObject returns (after it has updated the
\* mesh's matrixWorld): the geometry's bounding box under Box3.applyMatrix4.
\* Row i of the 3x3 block is << m[1][i], m[2][i], m[3][i] >>, in fifths.
WorldBox(boundingBox, mw) ==
  LET lo(i) == Min2(mw.m[1][i] * boundingBox.min[1],
                    mw.m[1][i] * boundingBox.max[1])
             + Min2(mw.m[2][i] * boundingBox.min[2],
                    mw.m[2][i] * boundingBox.max[2])
             + Min2(mw.m[3][i] * boundingBox.min[3],
                    mw.m[3][i] * boundingBox.max[3])
      hi(i) == Max2(mw.m[1][i] * boundingBox.min[1],
                    mw.m[1][i] * boundingBox.max[1])
             + Max2(mw.m[2][i] * boundingBox.min[2],
                    mw.m[2][i] * boundingBox.max[2])
             + Max2(mw.m[3][i] * boundingBox.min[3],
                    mw.m[3][i] * boundingBox.max[3])
      t(i)  == [n |-> mw.t.n[i], d |-> mw.t.d]
  IN  [min |-> [i \in 1..3 |-> RatAdd(t(i), Rat(lo(i), Fifth))],
       max |-> [i \in 1..3 |-> RatAdd(t(i), Rat(hi(i), Fifth))]]

\* The footprint addObject and updateAllObjects hand to the broad phase:
\* (center.x - size.x / 2, center.z - size.z / 2, size.x, size.z) of the
\* world AABB.
Footprint(id, box) ==
  [id     |-> id,
   x      |-> box.min[1],
   y      |-> box.min[3],
   width  |-> RatSub(box.max[1], box.min[1]),
   height |-> RatSub(box.max[3], box.min[3])]

\* ------------------------------------- AkashicCollisionSystem (part_002)

\* checkAABBCollision: the overlap rectangle, hit = FALSE standing for null.
CheckAABBCollision(aabb1, aabb2) ==
  LET overlapX ==
        RatMax(RatZero,
               RatSub(RatMin(RatAdd(aabb1.x, aabb1.width),
                             RatAdd(aabb2.x, aabb2.width)),
                      RatMax(aabb1.x, aabb2.x)))
      overlapY ==
        RatMax(RatZero,
               RatSub(RatMin(RatAdd(aabb1.y, aabb1.height),
                             RatAdd(aabb2.y, aabb2.height)),
                      RatMax(aabb1.y, aabb2.y)))
  IN  IF RatLess(RatZero, overlapX) /\ RatLess(RatZero, overlapY)
      THEN [hit |-> TRUE, x |-> RatMax(aabb1.x, aabb2.x),
            y |-> RatMax(aabb1.y, aabb2.y),
            width |-> overlapX, height |-> overlapY]
      ELSE [hit |-> FALSE, x |-> RatZero, y |-> RatZero,
            width |-> RatZero, height |-> RatZero]

\* Fault variant of PairsFrom: the inner loop starts at the first entry.
RECURSIVE PairsFromAll(_, _, _)
PairsFromAll(i, j, n) ==
  IF i > n THEN << >>
  ELSE IF j > n THEN PairsFromAll(i + 1, 1, n)
  ELSE << << i, j >> >> \o PairsFromAll(i, j + 1, n)

\* The pairs (i, j), i < j, of 1..n in the order of the two nested loops.
RECURSIVE PairsFrom(_, _, _)
PairsFrom(i, j, n) ==
  IF i >= n THEN << >>
  ELSE IF j > n THEN PairsFrom(i + 1, i + 2, n)
  ELSE << << i, j >> >> \o PairsFrom(i, j + 1, n)

\* AkashicCollisionSystem.checkCollisions on the Map bs: the new
\* collisionResults.
AkashicCheckCollisions(bs) ==
  LET pairs == PairsFrom(1, 2, Len(bs))
      hits  == SelectSeq(pairs,
                 LAMBDA p : CheckAABBCollision(bs[p[1]], bs[p[2]]).hit)
  IN  [k \in 1..Len(hits) |->
         [id1 |-> bs[hits[k][1]].id, id2 |-> bs[hits[k][2]].id,
          overlap |-> CheckAABBCollision(bs[hits[k][1]], bs[hits[k][2]])]]

\* AkashicCollisionSystem.updateBody, updateBodySize, removeBody and
\* getBody on the Map bs (getBody: found = FALSE standing for undefined).
UpdateBody(bs, id, x, y) ==
  IF MapHas(bs, id)
  THEN MapSet(bs, [MapGet(bs, id) EXCEPT !.x = x, !.y = y])
  ELSE bs

UpdateBodySize(bs, id, width, height) ==
  IF MapHas(bs, id)
  THEN MapSet(bs, [MapGet(bs, id) EXCEPT !.width = width, !.height = height])
  ELSE bs

RemoveBody(bs, id) == MapDelete(bs, id)

GetBody(bs, id) ==
  IF MapHas(bs, id) THEN [found |-> TRUE, body |-> MapGet(bs, id)]
  ELSE [found |-> FALSE, body |-> << >>]

\* updateBody followed by updateBodySize: no-ops when the id is absent.
UpdateBodyAndSize(bs, fp) ==
  IF MapHas(bs, fp.id) THEN MapSet(bs, fp) ELSE bs

\* ------------------------- HybridCollisionSystem (ThreeDAkashicCollision.ts)

Meshes == { "m1", "m2" }

Ids == { "a", "b" }

Positions == { [n |-> << x, 0, 0 >>, d |-> 1] : x \in 0..MaxCoord }

Rotations == { "I", "Y" }

Scales == { << 0, 0, 0 >>, << 1, 1, 1 >>, << 2, 2, 2 >> }

\* resolveCollision's strength, as a rational.
Strengths == { [n |-> 0, d |-> 1], [n |-> 1, d |-> 2], [n |-> 1, d |-> 1] }

\* A newly constructed mesh on a cube geometry.
NewMesh ==
  [position |-> Origin, rotation |-> "I", scale |-> << 1, 1, 1 >>,
   matrixWorld |-> IdentityMatrix4, geometry |-> Cube]

\* The pipeline after construction, with the caller's meshes newly made.
PipelineInit ==
  /\ mesh = [m \in Meshes |-> NewMesh]
  /\ objects = << >>
  /\ bodies = << >>
  /\ collisionResults = << >>
  /\ ret = [op |-> "none", threw |-> FALSE]
  /\ log = << >>
  /\ resolves = 0
  /\ showDebugOBB = FALSE
  /\ debugMeshes = << >>
  /\ scene = { }
  /\ selectedObject = "null"
  /\ shapes = << >>

Init ==
  /\ PipelineInit
  /\ boxA = FromMesh(Cube, IdentityMatrix4)
  /\ boxB = FromMesh(Cube, IdentityMatrix4)
  /\ satAB = NoResult
  /\ satBA = NoResult

\* The caller moves or scales a mesh (mesh.position.set, mesh.scale.set).
SetPosition(m, p) ==
  /\ mesh[m].position # p
  /\ mesh' = [mesh EXCEPT ![m].position = p]
  /\ ret' = [op |-> "other", threw |-> FALSE]
  /\ log' = << >>
  /\ UNCHANGED << objects, bodies, collisionResults, resolves, satVars,
                  appVars >>

SetScale(m, s) ==
  /\ mesh[m].scale # s
  /\ mesh' = [mesh EXCEPT ![m].scale = s]
  /\ ret' = [op |-> "other", threw |-> FALSE]
  /\ log' = << >>
  /\ UNCHANGED << objects, bodies, collisionResults, resolves, satVars,
                  appVars >>

\* renderer.render(scene, camera): scene.updateMatrixWorld() brings the
\* matrixWorld of every mesh up to date.
Render ==
  /\ \E m \in Meshes : UpdateWorldMatrix(mesh[m]) # mesh[m]
  /\ mesh' = [m \in Meshes |-> UpdateWorldMatrix(mesh[m])]
  /\ ret' = [op |-> "other", threw |-> FALSE]
  /\ log' = << >>
  /\ UNCHANGED << objects, bodies, collisionResults, resolves, satVars,
                  appVars >>

\* A debug mesh is known by a number.  The debug meshes something still
\* refers to (the cache or the scene), and the one createDebugMesh makes
\* next: a mesh that is none of them.
LiveDebugMeshes == { debugMeshes[k].mesh : k \in 1..Len(debugMeshes) } \cup scene

NewDebugMesh(live) == CHOOSE n \in 1..(MaxDebugMeshes + 1) :
                        /\ n \notin live
                        /\ \A k \in 1..(n - 1) : k \in live

\* HybridCollisionSystem.addObject(id, mesh, 'box').
AddObject(id, m) ==
  LET obb == FromMesh(mesh[m].geometry, mesh[m].matrixWorld)
      collisionObject ==
        [id |-> id, mesh |-> m, obb |-> obb, shapeType |-> "box"]
      updated == UpdateWorldMatrix(mesh[m])
      boundingBox == WorldBox(updated.geometry, updated.matrixWorld)
  IN  /\ objects' = MapSet(objects, collisionObject)
      /\ mesh' = [mesh EXCEPT ![m] = updated]
      /\ bodies' = MapSet(bodies, Footprint(id, boundingBox))
      /\ IF showDebugOBB
         THEN /\ Cardinality(LiveDebugMeshes) < MaxDebugMeshes
              /\ debugMeshes' =
                   MapSet(debugMeshes,
                          [id |-> id, mesh |-> NewDebugMesh(LiveDebugMeshes)])
         ELSE UNCHANGED debugMeshes
      /\ ret' = [op |-> "other", threw |-> FALSE]
      /\ log' = << >>
      /\ UNCHANGED << collisionResults, resolves, satVars, showDebugOBB,
                      scene, demoVars >>

\* Fault variant of RemoveObject: the footprint stays in the broad-phase
\* index.
RemoveObjectKeepsFootprint(id) ==
  /\ objects' = MapDelete(objects, id)
  /\ ret' = [op |-> "removeObject", threw |-> FALSE, id1 |-> id,
             found |-> MapHas(objects, id)]
  /\ debugMeshes' = MapDelete(debugMeshes, id)
  /\ log' = << >>
  /\ UNCHANGED << mesh, bodies, collisionResults, resolves, satVars,
                  showDebugOBB, scene, demoVars >>

\* HybridCollisionSystem.removeObject(id); found is what objects.delete
\* returns.
RemoveObject(id) ==
  /\ objects' = MapDelete(objects, id)
  /\ bodies' = MapDelete(bodies, id)
  /\ ret' = [op |-> "removeObject", threw |-> FALSE, id1 |-> id,
             found |-> MapHas(objects, id)]
  /\ debugMeshes' = MapDelete(debugMeshes, id)
  /\ log' = << >>
  /\ UNCHANGED << mesh, collisionResults, resolves, satVars, showDebugOBB,
                  scene, demoVars >>

\* HybridCollisionSystem.updateAllObjects from entry k on: per object, the
\* OBB from the mesh's matrixWorld as it stands, then Box3.setFromObject
\* (which updates that matrixWorld) and the footprint.  st is
\* [mesh, objects, bodies, log].
RECURSIVE UpdateAllObjects(_, _)
UpdateAllObjects(st, k) ==
  IF k > Len(st.objects) THEN st
  ELSE LET obj     == st.objects[k]
           m       == obj.mesh
           obb     == FromMesh(st.mesh[m].geometry, st.mesh[m].matrixWorld)
           updated == UpdateWorldMatrix(st.mesh[m])
           boundingBox == WorldBox(updated.geometry, updated.matrixWorld)
       IN  UpdateAllObjects(
             [mesh    |-> [st.mesh EXCEPT ![m] = updated],
              objects |-> [st.objects EXCEPT ![k].obb = obb],
              bodies  |-> UpdateBodyAndSize(st.bodies,
                                            Footprint(obj.id, boundingBox)),
              log     |-> Append(st.log, [step |-> "refresh", id1 |-> obj.id,
                                          id2 |-> obj.id])],
             k + 1)

\* The narrow-phase loop of checkCollisions from rough collision k on.
\* acc is [results, log, threw].
RECURSIVE NarrowPhase(_, _, _, _)
NarrowPhase(objs, rough, k, acc) ==
  IF k > Len(rough) THEN acc
  ELSE IF ~(MapHas(objs, rough[k].id1) /\ MapHas(objs, rough[k].id2))
       THEN NarrowPhase(objs, rough, k + 1, acc)
       ELSE LET object1   == MapGet(objs, rough[k].id1)
                object2   == MapGet(objs, rough[k].id2)
                obbResult == Intersects(object1.obb, object2.obb)
                logged    == Append(acc.log,
                               [step |-> "narrow", id1 |-> object1.id,
                                id2 |-> object2.id])
            IN  IF obbResult.outcome = "TypeError"
                THEN [acc EXCEPT !.log = logged, !.threw = TRUE]
                ELSE IF obbResult.isColliding
                THEN NarrowPhase(objs, rough, k + 1,
                       [acc EXCEPT
                          !.log = logged,
                          !.results = Append(@,
                            [object1 |-> object1.id,
                             object2 |-> object2.id,
                             obbResult |-> obbResult,
                             contactPoint |-> obbResult.contactPoint,
                             separatingAxis |-> obbResult.separatingAxis,
                             penetrationDepth |->
                               obbResult.penetrationDepth])])
                ELSE NarrowPhase(objs, rough, k + 1,
                                 [acc EXCEPT !.log = logged])

\* Fault variant of CheckCollisions: the broad phase runs on the footprints
\* as they stood before the refresh.
CheckCollisionsBroadFirst ==
  LET roughCollisions == AkashicCheckCollisions(bodies)
      refreshed == UpdateAllObjects(
                     [mesh |-> mesh, objects |-> objects, bodies |-> bodies,
                      log |-> << [step |-> "broad", id1 |-> "", id2 |-> ""] >>],
                     1)
      narrow == NarrowPhase(refreshed.objects, roughCollisions, 1,
                  [results |-> << >>, log |-> refreshed.log,
                   threw |-> FALSE])
  IN  /\ mesh' = refreshed.mesh
      /\ objects' = refreshed.objects
      /\ bodies' = refreshed.bodies
      /\ collisionResults' = narrow.results
      /\ log' = narrow.log
      /\ ret' = [op |-> "checkCollisions", threw |-> narrow.threw]
      /\ UNCHANGED << resolves, satVars, appVars >>

\* HybridCollisionSystem.checkCollisions().
CheckCollisions ==
  LET refreshed == UpdateAllObjects(
                     [mesh |-> mesh, objects |-> objects, bodies |-> bodies,
                      log |-> << >>], 1)
      roughCollisions == AkashicCheckCollisions(refreshed.bodies)
      narrow == NarrowPhase(refreshed.objects, roughCollisions, 1,
                  [results |-> << >>,
                   log |-> Append(refreshed.log,
                             [step |-> "broad", id1 |-> "", id2 |-> ""]),
                   threw |-> FALSE])
  IN  /\ mesh' = refreshed.mesh
      /\ objects' = refreshed.objects
      /\ bodies' = refreshed.bodies
      /\ collisionResults' = narrow.results
      /\ log' = narrow.log
      /\ ret' = [op |-> "checkCollisions", threw |-> narrow.threw]
      /\ UNCHANGED << resolves, satVars, appVars >>

\* HybridCollisionSystem.checkCollisionBetween(id1, id2): on the stored
\* OBBs and footprints (nothing is refreshed).  result is "null" or
\* "record"; sat tells whether the SAT test was run.
CheckCollisionBetween(id1, id2) ==
  LET null(sat) ==
        [op |-> "checkCollisionBetween", threw |-> FALSE, id1 |-> id1,
         id2 |-> id2, result |-> "null", sat |-> sat, obbResult |-> NoResult]
  IN  /\ ret' =
           IF ~(MapHas(objects, id1) /\ MapHas(objects, id2)) THEN null(FALSE)
           ELSE IF ~(MapHas(bodies, id1) /\ MapHas(bodies, id2))
           THEN null(FALSE)
           ELSE
             LET object1 == MapGet(objects, id1)
                 object2 == MapGet(objects, id2)
                 aabb1   == MapGet(bodies, id1)
                 aabb2   == MapGet(bodies, id2)
                 overlapX ==
                   RatMax(RatZero,
                          RatSub(RatMin(RatAdd(aabb1.x, aabb1.width),
                                        RatAdd(aabb2.x, aabb2.width)),
                                 RatMax(aabb1.x, aabb2.x)))
                 overlapZ ==
                   RatMax(RatZero,
                          RatSub(RatMin(RatAdd(aabb1.y, aabb1.height),
                                        RatAdd(aabb2.y, aabb2.height)),
                                 RatMax(aabb1.y, aabb2.y)))
                 obbResult == Intersects(object1.obb, object2.obb)
             IN  IF ~RatLess(RatZero, overlapX) \/ ~RatLess(RatZero, overlapZ)
                 THEN null(FALSE)
                 ELSE IF obbResult.outcome = "TypeError"
                 THEN [null(TRUE) EXCEPT !.threw = TRUE]
                 ELSE IF ~obbResult.isColliding
                 THEN null(TRUE)
                 ELSE [null(TRUE) EXCEPT !.result = "record",
                                         !.obbResult = obbResult]
      /\ log' = << >>
      /\ UNCHANGED << mesh, objects, bodies, collisionResults, resolves,
                      satVars, appVars >>

\* Fault variant of RaycastFrom: a hit as near as the closest so far
\* replaces it.
RECURSIVE RaycastFromLatest(_, _, _, _)
RaycastFromLatest(ray, maxDistance, k, closestHit) ==
  IF k > Len(objects) THEN closestHit
  ELSE LET obj == objects[k]
           hit == IntersectsRay(obj.obb, ray)
       IN  IF /\ hit.hit
              /\ ~RatLess(maxDistance, hit.distance)
              /\ ~closestHit.hit
                   \/ ~RatLess(closestHit.distance, hit.distance)
           THEN RaycastFromLatest(ray, maxDistance, k + 1,
                                  [hit |-> TRUE, id |-> obj.id,
                                   distance |-> hit.distance,
                                   point |-> hit.point])
           ELSE RaycastFromLatest(ray, maxDistance, k + 1, closestHit)

\* The loop of HybridCollisionSystem.raycast from object k on; closestHit
\* is [hit, id, distance, point].
RECURSIVE RaycastFrom(_, _, _, _)
RaycastFrom(ray, maxDistance, k, closestHit) ==
  IF k > Len(objects) THEN closestHit
  ELSE LET obj == objects[k]
           hit == IntersectsRay(obj.obb, ray)
       IN  IF /\ hit.hit
              /\ ~RatLess(maxDistance, hit.distance)
              /\ ~closestHit.hit
                   \/ RatLess(hit.distance, closestHit.distance)
           THEN RaycastFrom(ray, maxDistance, k + 1,
                            [hit |-> TRUE, id |-> obj.id,
                             distance |-> hit.distance,
                             point |-> hit.point])
           ELSE RaycastFrom(ray, maxDistance, k + 1, closestHit)

\* HybridCollisionSystem.raycast(ray, maxDistance).
Raycast(ray, maxDistance) ==
  LET closestHit ==
        RaycastFrom(ray, maxDistance, 1,
                    [hit |-> FALSE, id |-> "", distance |-> RatZero,
                     point |-> Origin])
  IN  /\ ret' = [op |-> "raycast", threw |-> FALSE, ray |-> ray,
                 maxDistance |-> maxDistance, closestHit |-> closestHit]
      /\ log' = << >>
      /\ UNCHANGED << mesh, objects, bodies, collisionResults, resolves,
                      satVars, appVars >>

\* separatingAxis * penetrationDepth * strength, as a rational vector: the
\* unit axis is w / sqrt(w.w) and the depth num / (den * sqrt(k)) with
\* w.w = r * r * k.
SeparationVector(obbResult, strength) ==
  LET w     == obbResult.separatingAxis
      depth == obbResult.penetrationDepth
  IN  Pt(VScale(depth.num * strength.n, w),
         depth.den * SquarePart(Dot(w, w)) * depth.k * strength.d)

\* Fault variant of TimesRatio: each object is moved by the whole
\* separation vector.
TimesRatioWhole(p) == p

\* Vector3.multiplyScalar(0.5): ratio1 = ratio2 = 1.0 / (1.0 + 1.0).
TimesRatio(p) == Pt(p.n, 2 * p.d)

\* HybridCollisionSystem.resolveCollision(collision, strength), on a record
\* the last checkCollisions() returned.
ResolveCollision(k, strength) ==
  /\ ret.op = "checkCollisions" /\ ~ret.threw
  /\ k \in 1..Len(collisionResults)
  /\ resolves < MaxResolves
  /\ LET collision == collisionResults[k]
         object1   == MapGet(objects, collision.object1)
         object2   == MapGet(objects, collision.object2)
         separationVector ==
           SeparationVector(collision.obbResult, strength)
         moved1 == [mesh EXCEPT ![object1.mesh].position =
                      PtSub(@, TimesRatio(separationVector))]
         moved2 == [moved1 EXCEPT ![object2.mesh].position =
                      PtAdd(@, TimesRatio(separationVector))]
         obb1 == FromMesh(moved2[object1.mesh].geometry,
                          moved2[object1.mesh].matrixWorld)
         obb2 == FromMesh(moved2[object2.mesh].geometry,
                          moved2[object2.mesh].matrixWorld)
     IN  /\ mesh' = moved2
         /\ objects' = [i \in 1..Len(objects) |->
                          IF objects[i].id = object2.id
                          THEN [objects[i] EXCEPT !.obb = obb2]
                          ELSE IF objects[i].id = object1.id
                          THEN [objects[i] EXCEPT !.obb = obb1]
                          ELSE objects[i]]
  /\ resolves' = resolves + 1
  /\ ret' = [op |-> "resolveCollision", threw |-> FALSE]
  /\ log' = << >>
  /\ UNCHANGED << bodies, collisionResults, satVars, appVars >>

\* Fault variant of Reset: the broad-phase index is kept.
ResetKeepsIndex ==
  /\ objects' = << >>
  /\ collisionResults' = << >>
  /\ debugMeshes' = << >>
  /\ ret' = [op |-> "other", threw |-> FALSE]
  /\ log' = << >>
  /\ UNCHANGED << mesh, bodies, resolves, satVars, showDebugOBB, scene,
                  demoVars >>

\* HybridCollisionSystem.reset().
Reset ==
  /\ objects' = << >>
  /\ bodies' = << >>
  /\ collisionResults' = << >>
  /\ debugMeshes' = << >>
  /\ ret' = [op |-> "other", threw |-> FALSE]
  /\ log' = << >>
  /\ UNCHANGED << mesh, resolves, satVars, showDebugOBB, scene, demoVars >>

\* The rays cast: along X from the left of every mesh, and straight down
\* on the origin.
Rays ==
  { [origin |-> Pt(<< -3, 0, 0 >>, 1), direction |-> << 1, 0, 0 >>],
    [origin |-> Pt(<< 0, 3, 0 >>, 1), direction |-> << 0, -1, 0 >>] }

\* raycast's maxDistance: the default (Infinity) and 3.
MaxDistances == { PosInfinity, [n |-> 3, d |-> 1] }

\* The shape the keys move: the demo moves the selected shape only
\* (updateSelectedObject), every other mesh stays where it was put.
Selected == "m1"

\* Each id is registered with the mesh of its own shape (createShapes).
MeshOf(id) == IF id = "a" THEN "m1" ELSE "m2"

Next ==
  \/ \E p \in Positions : SetPosition(Selected, p)
  \/ Render
  \/ \E id \in Ids : AddObject(id, MeshOf(id))
  \/ \E id \in Ids : RemoveObject(id)
  \/ CheckCollisions
  \/ Reset

Spec == Init /\ [][Next]_vars

\* The same system with its queries on single pairs and rays.
NextQuery ==
  \/ \E p \in Positions : SetPosition(Selected, p)
  \/ \E id \in Ids : AddObject(id, MeshOf(id))
  \/ \E id \in Ids : RemoveObject(id)
  \/ CheckCollisions
  \/ \E id1 \in Ids : \E id2 \in Ids \ { id1 } :
       CheckCollisionBetween(id1, id2)
  \/ \E ray \in Rays, maxDistance \in MaxDistances :
       Raycast(ray, maxDistance)

SpecQuery == Init /\ [][NextQuery]_vars

\* A third shape that stands away from the other two, and its id.
Bystander == "m3"

BystanderId == "c"

\* The system with collision response, after createShapes has put a third
\* mesh at x = 5 and registered it (setPosition, then addObject on the new
\* system: the OBB from the mesh's first matrixWorld, the footprint and the
\* matrixWorld from its position).
InitResolve ==
  LET placed == [NewMesh EXCEPT !.position = Pt(<< 5, 0, 0 >>, 1)]
      added  == UpdateWorldMatrix(placed)
  IN  /\ mesh = [m \in Meshes \cup { Bystander } |->
                   IF m = Bystander THEN added ELSE NewMesh]
      /\ objects = << [id |-> BystanderId, mesh |-> Bystander,
                       obb |-> FromMesh(placed.geometry, placed.matrixWorld),
                       shapeType |-> "box"] >>
      /\ bodies = << Footprint(BystanderId,
                               WorldBox(added.geometry, added.matrixWorld)) >>
      /\ collisionResults = << >>
      /\ ret = [op |-> "none", threw |-> FALSE]
      /\ log = << >>
      /\ resolves = 0
      /\ showDebugOBB = FALSE
      /\ debugMeshes = << >>
      /\ scene = { }
      /\ selectedObject = "null"
      /\ shapes = << >>
      /\ boxA = FromMesh(Cube, IdentityMatrix4)
      /\ boxB = FromMesh(Cube, IdentityMatrix4)
      /\ satAB = NoResult
      /\ satBA = NoResult

\* The same system with collision response (resolveAllCollisions).
NextResolve ==
  \/ \E p \in Positions : SetPosition(Selected, p)
  \/ \E id \in Ids : AddObject(id, MeshOf(id))
  \/ CheckCollisions
  \/ \E k \in 1..Len(collisionResults), strength \in Strengths :
       ResolveCollision(k, strength)

SpecResolve == InitResolve /\ [][NextResolve]_vars

\* The same system with meshes that are scaled rather than moved: before
\* anything is registered m2 has been put at x = 3 and the selected mesh
\* has been given its rotation (createShapes: rotatedBox).
InitScale ==
  /\ \E r \in Rotations :
       mesh = [m \in Meshes |->
                 IF m = Selected THEN [NewMesh EXCEPT !.rotation = r]
                 ELSE [NewMesh EXCEPT !.position = Pt(<< 3, 0, 0 >>, 1)]]
  /\ objects = << >>
  /\ bodies = << >>
  /\ collisionResults = << >>
  /\ ret = [op |-> "none", threw |-> FALSE]
  /\ log = << >>
  /\ resolves = 0
  /\ showDebugOBB = FALSE
  /\ debugMeshes = << >>
  /\ scene = { }
  /\ selectedObject = "null"
  /\ shapes = << >>
  /\ boxA = FromMesh(Cube, IdentityMatrix4)
  /\ boxB = FromMesh(Cube, IdentityMatrix4)
  /\ satAB = NoResult
  /\ satBA = NoResult

NextScale ==
  \/ \E m \in Meshes, s \in Scales : SetScale(m, s)
  \/ \E id \in Ids : AddObject(id, MeshOf(id))
  \/ CheckCollisions

SpecScale == InitScale /\ [][NextScale]_vars

\* Scaled meshes queried pair by pair (checkCollisionBetween refreshes
\* nothing: it tests what addObject stored).
NextPair ==
  \/ \E m \in Meshes, s \in Scales : SetScale(m, s)
  \/ \E id \in Ids : AddObject(id, MeshOf(id))
  \/ \E id1 \in Ids : \E id2 \in Ids \ { id1 } :
       CheckCollisionBetween(id1, id2)

SpecPair == InitScale /\ [][NextPair]_vars

\* ------------------------------------------------- the SAT specification

SatGeometries == { Cube, Brick, Plate }

SatRotations == { "I", "X", "Y" }

SatScales == { << 0, 0, 0 >>, << 1, 1, 1 >>, << 2, 2, 2 >> }

SatCentres ==
  { [n |-> << x, y, z >>, d |-> 1] :
      x \in 0..MaxSatCoord, y \in 0..MaxSatCoord, z \in 0..MaxSatCoord }

\* The OBBs fromMesh builds for a mesh of the given geometry and transform.
SatBoxes(geometries, centres) ==
  { FromMesh(g, Compose(c, r, s)) :
      g \in geometries, c \in centres, r \in SatRotations,
      s \in SatScales }

\* A scale that flattens a mesh: mesh.scale.set(1, 0, 1).
FlatScale == << 1, 0, 1 >>

\* The OBBs fromMesh builds for a cube flattened by FlatScale.
SatFlatBoxes ==
  { FromMesh(Cube, Compose(Origin, r, FlatScale)) : r \in SatRotations }

InitSAT ==
  /\ boxA \in SatBoxes({ Cube, Brick }, { Origin }) \cup SatFlatBoxes
  /\ boxB \in SatBoxes(SatGeometries, SatCentres)
  /\ satAB = NoResult
  /\ satBA = NoResult
  /\ PipelineInit

\* boxA.intersects(boxB) and boxB.intersects(boxA), called one after the
\* other on the same two boxes (intersects changes neither).
IntersectsBothWays ==
  /\ satAB.outcome = "none"
  /\ satAB' = Intersects(boxA, boxB)
  /\ satBA' = Intersects(boxB, boxA)
  /\ UNCHANGED << boxA, boxB, pipelineVars >>

NextSAT == IntersectsBothWays

SpecSAT == InitSAT /\ [][NextSAT]_vars

\* ------------------------------------------------ the queries of one OBB

\* Fault variant of IntersectsRayOn: rayToCenter is computed on the centre
\* itself (this.center.sub without clone).
IntersectsRayInPlace(ray) ==
  /\ boxA' = [boxA EXCEPT !.center = PtSub(@, ray.origin)]
  /\ ret' = [op |-> "intersectsRay", threw |-> FALSE, ray |-> ray,
             rayAfter |-> ray, result |-> IntersectsRay(boxA, ray)]
  /\ log' = << >>
  /\ UNCHANGED << boxB, satAB, satBA, mesh, objects, bodies,
                  collisionResults, resolves, appVars >>

\* boxA.intersectsRay(ray); rayAfter is the ray once the call has returned
\* (origin and direction are only read, or cloned first).
IntersectsRayOn(ray) ==
  /\ ret' = [op |-> "intersectsRay", threw |-> FALSE, ray |-> ray,
             rayAfter |-> ray, result |-> IntersectsRay(boxA, ray)]
  /\ log' = << >>
  /\ UNCHANGED << satVars, mesh, objects, bodies, collisionResults,
                  resolves, appVars >>

\* boxA.containsPoint(point).
ContainsPointOn(point) ==
  /\ ret' = [op |-> "containsPoint", threw |-> FALSE, point |-> point,
             result |-> ContainsPoint(boxA, point)]
  /\ log' = << >>
  /\ UNCHANGED << satVars, mesh, objects, bodies, collisionResults,
                  resolves, appVars >>

\* boxA.projectOnAxis(axis), axis the unit vector along w.
ProjectOnAxisOn(w) ==
  /\ ret' = [op |-> "projectOnAxis", threw |-> FALSE, axis |-> w,
             result |-> ProjectOnAxis(boxA, w)]
  /\ log' = << >>
  /\ UNCHANGED << satVars, mesh, objects, bodies, collisionResults,
                  resolves, appVars >>

\* The rays: into the boxes along X from (-5, 0, 0), from inside, away from
\* them, straight down, and along X at heights 1 and 2.
RayInputs ==
  { [origin |-> Pt(<< -5, 0, 0 >>, 1), direction |-> << 1, 0, 0 >>],
    [origin |-> Pt(<< 0, 0, 0 >>, 1), direction |-> << 1, 0, 0 >>],
    [origin |-> Pt(<< -5, 0, 0 >>, 1), direction |-> << -1, 0, 0 >>],
    [origin |-> Pt(<< 0, 3, 0 >>, 1), direction |-> << 0, -1, 0 >>],
    [origin |-> Pt(<< -5, 1, 0 >>, 1), direction |-> << 1, 0, 0 >>],
    [origin |-> Pt(<< -5, 2, 0 >>, 1), direction |-> << 1, 0, 0 >>] }

PointInputs ==
  { Pt(<< 0, 0, 0 >>, 1), Pt(<< 1, 0, 0 >>, 1), Pt(<< 3, 0, 0 >>, 2),
    Pt(<< 2, 0, 0 >>, 1), Pt(<< 1, 1, 1 >>, 1) }

AxisInputs == { << 1, 0, 0 >>, << 0, 1, 0 >>, << 0, 0, 1 >>, << 1, 1, 0 >> }

RayCentres ==
  { [n |-> << x, y, 0 >>, d |-> 1] : x \in 0..MaxCoord, y \in 0..MaxCoord }

\* The box queried, and the second box of intersects: a cube at the origin
\* or a cube turned about Y beside it.
InitRay ==
  /\ boxA \in SatBoxes({ Cube, Brick }, RayCentres)
  /\ boxB \in { FromMesh(Cube, IdentityMatrix4),
                FromMesh(Cube, Compose(Pt(<< 1, 0, 0 >>, 1), "Y",
                                       << 1, 1, 1 >>)) }
  /\ satAB = NoResult
  /\ satBA = NoResult
  /\ PipelineInit

NextRay ==
  \/ \E ray \in RayInputs : IntersectsRayOn(ray)
  \/ \E point \in PointInputs : ContainsPointOn(point)
  \/ \E w \in AxisInputs : ProjectOnAxisOn(w)
  \/ IntersectsBothWays

SpecRay == InitRay /\ [][NextRay]_vars

\* ------------------------------------- the broad phase on its own (part_002)

\* AkashicCollisionSystem.createAABB(id, x, y, width, height).
CreateAABB(id, x, y, width, height) ==
  /\ bodies' = MapSet(bodies, [id |-> id, x |-> x, y |-> y,
                               width |-> width, height |-> height])
  /\ ret' = [op |-> "other", threw |-> FALSE]
  /\ log' = << >>
  /\ UNCHANGED << mesh, objects, collisionResults, resolves, satVars,
                  appVars >>

\* AkashicCollisionSystem.checkCollisions(), called by its owner.
AkashicCheck ==
  /\ ret' = [op |-> "akashicCheckCollisions", threw |-> FALSE,
             results |-> AkashicCheckCollisions(bodies)]
  /\ log' = << >>
  /\ UNCHANGED << mesh, objects, bodies, collisionResults, resolves,
                  satVars, appVars >>

\* The rectangles registered: corners on the unit grid; widths from 0 (a
\* segment or a point) to MaxRect, depths 0 or MaxRect.
RectCorners == { [n |-> k, d |-> 1] : k \in 0..(MaxRect - 1) }

RectWidths == { [n |-> k, d |-> 1] : k \in 0..MaxRect }

RectDepths == { [n |-> 0, d |-> 1], [n |-> MaxRect, d |-> 1] }

NextBroad ==
  \/ \E id \in Ids, x \in RectCorners, y \in RectCorners,
        width \in RectWidths, height \in RectDepths :
       CreateAABB(id, x, y, width, height)
  \/ AkashicCheck

SpecBroad == Init /\ [][NextBroad]_vars


\* ------------------------------------------------- properties: the pipeline

\* The matrixWorld, OBB and footprint a mesh has with its transform as it
\* stands.
CurrentMatrix(m) ==
  Compose(mesh[m].position, mesh[m].rotation, mesh[m].scale)

CurrentOBB(m) == FromMesh(mesh[m].geometry, CurrentMatrix(m))

CurrentFootprint(id, m) ==
  Footprint(id, WorldBox(mesh[m].geometry, CurrentMatrix(m)))

\* C1: every checkCollisions() call tests each registered object's OBB and
\* footprint as derived from the object's transform at the time of the
\* call, never from an earlier one.
C1_TestedGeometryIsCurrent ==
  ret.op = "checkCollisions" =>
    \A k \in 1..Len(objects) :
      /\ objects[k].obb = CurrentOBB(objects[k].mesh)
      /\ MapHas(bodies, objects[k].id)
      /\ MapGet(bodies, objects[k].id)
           = CurrentFootprint(objects[k].id, objects[k].mesh)

\* C2: after a refresh that left every OBB in line with its object's
\* transform, any two registered objects whose OBBs the SAT test reports
\* colliding have overlapping footprints (the broad phase returns the pair).
C2_BroadPhaseConservative ==
  ( /\ ret.op = "checkCollisions"
    /\ ~ret.threw
    /\ \A k \in 1..Len(objects) :
         objects[k].obb = CurrentOBB(objects[k].mesh) ) =>
    \A i, j \in 1..Len(objects) :
      ( i < j /\ Intersects(objects[i].obb, objects[j].obb).isColliding ) =>
        CheckAABBCollision(MapGet(bodies, objects[i].id),
                           MapGet(bodies, objects[j].id)).hit

\* C3: addObject on an id that is already registered fails with an explicit
\* failure and leaves the registration (object and footprint) unchanged.
C3_DuplicateAddFails ==
  [][ \A id \in Ids :
        ( MapHas(objects, id) /\ AddObject(id, MeshOf(id)) ) =>
          ( ret'.threw /\ objects' = objects /\ bodies' = bodies ) ]_vars

\* C4: checkCollisions() never throws, whatever the registry holds.
C4_CheckCollisionsNeverThrows ==
  ret.op = "checkCollisions" => ~ret.threw

\* C5: after resolveCollision(record, strength) returns, the OBBs of the
\* record's two objects are the OBBs of the corrected positions.
C5_ResolvedOBBsAreCurrent ==
  ret.op = "resolveCollision" =>
    \A c \in 1..Len(collisionResults) :
      \A id \in { collisionResults[c].object1, collisionResults[c].object2 } :
        MapHas(objects, id) =>
          MapGet(objects, id).obb = CurrentOBB(MapGet(objects, id).mesh)

\* C6: within one checkCollisions() call every registered object is
\* refreshed (in registry order) before the broad-phase pass, the
\* broad-phase pass comes before every SAT test, the candidates are computed
\* from the refreshed footprints, and a SAT test runs only on a pair the
\* broad-phase pass returned; every reported collision comes from such a test.
C6_RefreshBroadNarrowOrder ==
  ret.op = "checkCollisions" =>
    LET n     == Len(objects)
        rough == AkashicCheckCollisions(bodies)
        fresh == AkashicCheckCollisions(
                   [k \in 1..Len(bodies) |->
                      CurrentFootprint(bodies[k].id,
                                       MapGet(objects, bodies[k].id).mesh)])
    IN  /\ Len(log) > n
        /\ \A k \in 1..n :
             log[k] = [step |-> "refresh", id1 |-> objects[k].id,
                       id2 |-> objects[k].id]
        /\ log[n + 1].step = "broad"
        /\ rough = fresh
        /\ \A k \in (n + 2)..Len(log) :
             /\ log[k].step = "narrow"
             /\ \E r \in 1..Len(rough) :
                  rough[r].id1 = log[k].id1 /\ rough[r].id2 = log[k].id2
        /\ \A c \in 1..Len(collisionResults) :
             \E k \in (n + 2)..Len(log) :
               /\ log[k].id1 = collisionResults[c].object1
               /\ log[k].id2 = collisionResults[c].object2

\* C6 witness: a call that refreshed two objects and ran a SAT test.
C6_Witness ==
  /\ ret.op = "checkCollisions"
  /\ Len(objects) = 2
  /\ Len(log) > Len(objects) + 1
  /\ log[Len(log)].step = "narrow"

\* -------------------------------------------------- properties: the SAT

\* The fifteen candidate axes: three of a, three of b and the nine cross
\* products of an axis of a with an axis of b.
Candidates(a, b) ==
  { [v |-> GetAxes(a)[i], u |-> Fifth] : i \in 1..3 }
    \cup { [v |-> GetAxes(b)[j], u |-> Fifth] : j \in 1..3 }
    \cup { [v |-> Cross(GetAxes(a)[i], GetAxes(b)[j]), u |-> Fifth * Fifth] :
             i \in 1..3, j \in 1..3 }

\* The candidates whose squared length is not below 1e-6.
Testable(a, b) == { c \in Candidates(a, b) : ~LengthSqBelowEps(c) }

\* min(max1, max2) - max(min1, min2) on the unit axis w / sqrt(w.w), up to
\* a positive factor.
OverlapOnAxis(a, b, w) == Overlap(ProjectOnAxis(a, w), ProjectOnAxis(b, w))

\* C7: A.intersects(B) tests the candidates among the fifteen whose squared
\* length is not below 1e-6; it returns isColliding = false if and only if
\* some tested axis has overlap <= 0, and it returns at the first such axis
\* in the order of the tests.
C7_SeparatingAxisTest ==
  satAB.outcome # "none" =>
    LET seq == SelectSeq(AllAxes(boxA, boxB),
                         LAMBDA c : ~LengthSqBelowEps(c))
        sep(c) == OverlapOnAxis(boxA, boxB, Normalize(c)) <= 0
    IN  /\ { Normalize(seq[i]) : i \in 1..Len(seq) }
             = { Normalize(c) : c \in Testable(boxA, boxB) }
        /\ (satAB.outcome = "separated")
             <=> (\E c \in Testable(boxA, boxB) : sep(c))
        /\ satAB.outcome = "separated" =>
             /\ satAB.tested \in 1..Len(seq)
             /\ sep(seq[satAB.tested])
             /\ \A i \in 1..(satAB.tested - 1) : ~sep(seq[i])
             /\ satAB.separatingAxis = Normalize(seq[satAB.tested])
             /\ ~satAB.isColliding
        /\ satAB.outcome # "separated" => satAB.tested = Len(seq)

\* C7 witness: a separation found on a cross-product axis only (more than
\* six axes were tested before the call returned "not colliding").
C7_Witness == satAB.outcome = "separated" /\ satAB.tested > 6

AabbOverlap(a, b) ==
  \A i \in 1..3 :
    LET minA == (Half * a.center.n[i] - a.center.d * a.halfExtents[i])
                  * b.center.d
        maxA == (Half * a.center.n[i] + a.center.d * a.halfExtents[i])
                  * b.center.d
        minB == (Half * b.center.n[i] - b.center.d * b.halfExtents[i])
                  * a.center.d
        maxB == (Half * b.center.n[i] + b.center.d * b.halfExtents[i])
                  * a.center.d
    IN  Min2(maxA, maxB) - Max2(minA, minB) > 0

\* C9: when both boxes have identity orientation, intersects returns, and
\* reports isColliding = true exactly when the plain AABB test does.
C9_AxisAlignedReduction ==
  ( /\ satAB.outcome # "none"
    /\ boxA.orientation = Identity3
    /\ boxB.orientation = Identity3 ) =>
    /\ satAB.outcome # "TypeError"
    /\ satAB.isColliding <=> AabbOverlap(boxA, boxB)

\* C9 witness: two identity-oriented boxes at different centres collide.
C9_Witness ==
  /\ satAB.isColliding
  /\ boxA.orientation = Identity3
  /\ boxB.orientation = Identity3
  /\ boxA.center # boxB.center
  /\ boxA.halfExtents # boxB.halfExtents

WorldAxes == { << 1, 0, 0 >>, << 0, 1, 0 >>, << 0, 0, 1 >> }

\* C10: two boxes whose centres are further apart along a world axis than
\* the sum of their projected half extents on that axis are reported not
\* colliding.
C10_SeparatedOnWorldAxis ==
  ( /\ satAB.outcome # "none"
    /\ \E e \in WorldAxes : OverlapOnAxis(boxA, boxB, e) < 0 ) =>
    (satAB.outcome = "separated" /\ ~satAB.isColliding)

\* The largest half extent of a box (in halves) and its volume (in eighths).
LargestHalfExtent(b) ==
  Max2(Max2(b.halfExtents[1], b.halfExtents[2]), b.halfExtents[3])

Volume(b) == b.halfExtents[1] * b.halfExtents[2] * b.halfExtents[3]

\* The smaller of boxA and boxB (both when their volumes are equal).
SmallerBoxes ==
  { b \in { boxA, boxB } : Volume(b) = Min2(Volume(boxA), Volume(boxB)) }

\* depth <= 2 * (h / 2), for the depth num / (den * sqrt(k)).
DepthAtMost(depth, h) ==
  depth.num * depth.num <= h * h * depth.den * depth.den * depth.k

\* C11: every result of intersects has a penetration depth >= 0; when it
\* reports a collision the depth is at most twice the largest half extent
\* of the smaller box, and when it reports none the depth is 0.
C11_PenetrationBound ==
  satAB.outcome \notin { "none", "TypeError" } =>
    /\ satAB.penetrationDepth.num >= 0
    /\ satAB.isColliding =>
         \E b \in SmallerBoxes :
           DepthAtMost(satAB.penetrationDepth, LargestHalfExtent(b))
    /\ ~satAB.isColliding => satAB.penetrationDepth = ZeroDepth

\* The overlap on the unit axis of candidate c, in units of
\* 1 / (10 * dA * dB * sqrt(w.w)), w the direction of c.
OverlapOnCandidate(c) == OverlapOnAxis(boxA, boxB, Normalize(c))

\* o1 / sqrt(k1) <= o2 / sqrt(k2) for overlaps o1, o2 > 0, with the common
\* factors taken out before squaring.
OverlapAtMost(o1, k1, o2, k2) ==
  LET g  == Gcd(o1, o2)
      gk == Gcd(k1, k2)
      a  == o1 \div g
      b  == o2 \div g
      p  == k1 \div gk
      q  == k2 \div gk
  IN  IF a <= b /\ p >= q THEN TRUE
      ELSE IF a > b /\ p <= q THEN FALSE
      ELSE a * a * q <= b * b * p

\* The documented example: unit cubes centred at (0,0,0) and (1.5,0,0).
ExampleResult ==
  Intersects(FromMesh(Cube, IdentityMatrix4),
             FromMesh(Cube, Compose(Pt(<< 3, 0, 0 >>, 2), "I",
                                    << 1, 1, 1 >>)))

\* C12: when no candidate axis separates the boxes, intersects reports a
\* collision whose depth is the least overlap over the tested axes and
\* whose normal is, up to sign, a tested axis with that overlap; the two
\* unit cubes at (0,0,0) and (1.5,0,0) give depth 0.5 and normal (1,0,0).
C12_MinimumOverlap ==
  /\ ( /\ satAB.outcome # "none"
        /\ \A c \in Testable(boxA, boxB) : OverlapOnCandidate(c) > 0 ) =>
       /\ satAB.outcome = "colliding"
       /\ \E c \in Testable(boxA, boxB) :
            LET w == Normalize(c)
            IN  /\ satAB.separatingAxis \in { w, VNeg(w) }
                /\ satAB.penetrationDepth
                     = Depth(OverlapOnCandidate(c),
                             Fifth * Half * boxA.center.d * boxB.center.d,
                             Dot(w, w))
                /\ \A c2 \in Testable(boxA, boxB) :
                     OverlapAtMost(OverlapOnCandidate(c), Dot(w, w),
                                   OverlapOnCandidate(c2),
                                   Dot(Normalize(c2), Normalize(c2)))
  /\ ExampleResult.isColliding
  /\ ExampleResult.penetrationDepth = [num |-> 1, den |-> 2, k |-> 1]
  /\ ExampleResult.separatingAxis = << 1, 0, 0 >>

\* A box of zero volume: at least one half extent is 0.
ZeroVolume(b) == \E i \in 1..3 : b.halfExtents[i] = 0

\* C14: when one of the two boxes has zero volume, intersects returns
\* isColliding = false in both directions.
C14_ZeroVolumeNeverCollides ==
  ( /\ satAB.outcome # "none"
    /\ ZeroVolume(boxA) \/ ZeroVolume(boxB) ) =>
    /\ satAB.outcome = "separated"
    /\ satBA.outcome = "separated"

\* ------------------------------------- properties: records and queries

\* A normalized axis: the primitive direction of a non-zero vector, which
\* stands for the unit vector w / sqrt(w.w).
IsUnitDirection(w) == w # Zero3 /\ Gcd3(w) = 1

\* The normal of obbResult has a non-negative component along the line
\* from the OBB centre of id1 to the OBB centre of id2.
PointsFromFirstToSecond(obbResult, id1, id2) ==
  /\ IsUnitDirection(obbResult.separatingAxis)
  /\ Dot(obbResult.separatingAxis,
         PtSub(MapGet(objects, id2).obb.center,
               MapGet(objects, id1).obb.center).n) >= 0

C15_OrientationOrthonormal ==
  \A k \in 1..Len(objects) :
    LET axes == GetAxes(objects[k].obb)
    IN  /\ \A i, j \in 1..3 :
             Dot(axes[i], axes[j]) = IF i = j THEN Fifth * Fifth ELSE 0
        /\ \A i \in 1..3 : objects[k].obb.halfExtents[i] >= 0

\* What a list of records reports: the pairs, their depths and normals.
Reported(results) ==
  { [object1 |-> results[c].object1, object2 |-> results[c].object2,
     penetrationDepth |-> results[c].penetrationDepth,
     separatingAxis |-> results[c].separatingAxis] :
      c \in 1..Len(results) }

\* C16: a checkCollisions() call that follows another with no change in
\* between returns the same pairs with the same depths and normals.
C16_RepeatedCallsAgree ==
  [][ (ret.op = "checkCollisions" /\ ~ret.threw /\ CheckCollisions) =>
        ( /\ ~ret'.threw
          /\ Reported(collisionResults') = Reported(collisionResults) ) ]_vars

\* C17: resolveCollision(record, strength) moves object1 by
\* -0.5 * strength * depth and object2 by +0.5 * strength * depth along the
\* record's axis: the two displacements are opposite (the midpoint stays),
\* object2's lies along the axis and has length 0.5 * strength * depth;
\* with strength 0 nothing moves; no other mesh moves.
C17_ResolveMovesApart ==
  [][ \A k \in 1..Len(collisionResults), strength \in Strengths :
        ResolveCollision(k, strength) =>
          LET rec   == collisionResults[k]
              m1    == MapGet(objects, rec.object1).mesh
              m2    == MapGet(objects, rec.object2).mesh
              d1    == PtSub(mesh'[m1].position, mesh[m1].position)
              d2    == PtSub(mesh'[m2].position, mesh[m2].position)
              w     == rec.separatingAxis
              depth == rec.penetrationDepth
          IN  /\ PtAdd(d1, d2) = Origin
              /\ Cross(d2.n, w) = Zero3
              /\ Dot(d2.n, w) >= 0
              /\ 4 * Dot(d2.n, d2.n) * strength.d * strength.d
                    * depth.den * depth.den * depth.k
                  = strength.n * strength.n * depth.num * depth.num
                      * d2.d * d2.d
              /\ strength.n = 0 => mesh' = mesh
              /\ \A m \in (DOMAIN mesh) \ { m1, m2 } : mesh'[m] = mesh[m]
              /\ \A m \in DOMAIN mesh :
                   /\ mesh'[m].rotation = mesh[m].rotation
                   /\ mesh'[m].scale = mesh[m].scale ]_vars

\* C17 witness: a collision of depth > 0 has been resolved with a
\* strength > 0 while a third object was registered.
C17_Witness ==
  /\ ret.op = "resolveCollision"
  /\ Len(objects) = 3
  /\ \E m \in Meshes : mesh[m].position.d = 2

\* C18: operations on an id that is not registered do not throw and change
\* nothing: removeObject leaves the registry, the footprints and the cached
\* results as they were; checkCollisionBetween returns null when either id
\* is missing; updateBody, updateBodySize and removeBody leave the
\* broad-phase index as it was and getBody returns undefined.
C18_UnknownIdsChangeNothing ==
  /\ [][ \A id \in Ids :
           (~MapHas(objects, id) /\ RemoveObject(id)) =>
             ( /\ objects' = objects
               /\ bodies' = bodies
               /\ collisionResults' = collisionResults
               /\ mesh' = mesh
               /\ ~ret'.threw ) ]_vars
  /\ []( ( /\ ret.op = "checkCollisionBetween"
           /\ ~MapHas(objects, ret.id1) \/ ~MapHas(objects, ret.id2) ) =>
           (ret.result = "null" /\ ~ret.threw /\ ~ret.sat) )
  /\ []( \A id \in Ids \ MapKeys(bodies) :
           /\ UpdateBody(bodies, id, RatZero, RatZero) = bodies
           /\ UpdateBodySize(bodies, id, RatZero, RatZero) = bodies
           /\ RemoveBody(bodies, id) = bodies
           /\ ~GetBody(bodies, id).found )

\* C18 witness: removeObject was called on an id that was not registered
\* while another object was.
C18_Witness ==
  /\ ret.op = "removeObject"
  /\ ~ret.found
  /\ Len(objects) = 1
  /\ Len(bodies) = 1

C20_PairQuery ==
  ret.op = "checkCollisionBetween" =>
    LET registered == MapHas(objects, ret.id1) /\ MapHas(objects, ret.id2)
        overlap2D  ==
          CheckAABBCollision(MapGet(bodies, ret.id1),
                             MapGet(bodies, ret.id2)).hit
        colliding  ==
          Intersects(MapGet(objects, ret.id1).obb,
                     MapGet(objects, ret.id2).obb).isColliding
    IN  /\ ~ret.threw
        /\ ret.result \in { "record", "null" }
        /\ (ret.result = "record")
             <=> (registered /\ overlap2D /\ colliding)
        /\ ret.sat <=> (registered /\ overlap2D)

\* ------------------------------------------------------ the debug display

\* The loop of toggleDebugOBB that turns the display on, from object k on:
\* an object without a cached debug mesh gets a new one, which is cached
\* and added to the scene.  st is [debugMeshes, scene].
RECURSIVE ToggleOnFrom(_, _)
ToggleOnFrom(k, st) ==
  IF k > Len(objects) THEN st
  ELSE IF MapHas(st.debugMeshes, objects[k].id)
       THEN ToggleOnFrom(k + 1, st)
       ELSE LET debugMesh ==
                  NewDebugMesh({ st.debugMeshes[i].mesh :
                                   i \in 1..Len(st.debugMeshes) }
                               \cup st.scene)
            IN  ToggleOnFrom(k + 1,
                  [debugMeshes |->
                     MapSet(st.debugMeshes,
                            [id |-> objects[k].id, mesh |-> debugMesh]),
                   scene |-> st.scene \cup { debugMesh }])

\* HybridCollisionSystem.toggleDebugOBB(scene).
ToggleDebugOBB ==
  /\ showDebugOBB' = ~showDebugOBB
  /\ IF showDebugOBB'
     THEN /\ Cardinality(LiveDebugMeshes)
               + Cardinality(MapKeys(objects) \ MapKeys(debugMeshes))
               <= MaxDebugMeshes
          /\ LET st == ToggleOnFrom(1, [debugMeshes |-> debugMeshes,
                                        scene |-> scene])
             IN  /\ debugMeshes' = st.debugMeshes
                 /\ scene' = st.scene
     ELSE /\ scene' = scene \ { debugMeshes[k].mesh :
                                   k \in 1..Len(debugMeshes) }
          /\ debugMeshes' = << >>
  /\ ret' = [op |-> "other", threw |-> FALSE]
  /\ log' = << >>
  /\ UNCHANGED << mesh, objects, bodies, collisionResults, resolves,
                  satVars, demoVars >>

NextDebug ==
  \/ \E id \in Ids : AddObject(id, MeshOf(id))
  \/ \E id \in Ids : RemoveObject(id)
  \/ ToggleDebugOBB
  \/ Reset

SpecDebug == Init /\ [][NextDebug]_vars

\* ------------------------------------------------- three shapes, statistics

\* HybridCollisionSystem.getStats(): the rough count is taken anew from the
\* footprints as they stand, the precise count from the records the last
\* checkCollisions() left.
GetStats ==
  LET roughCollisions   == AkashicCheckCollisions(bodies)
      preciseCollisions == collisionResults
  IN  /\ ret' = [op |-> "getStats", threw |-> FALSE,
                 objectCount |-> Len(objects),
                 roughCollisionCount |-> Len(roughCollisions),
                 preciseCollisionCount |-> Len(preciseCollisions),
                 performanceRatio |->
                   IF Len(roughCollisions) > 0
                   THEN Rat(Len(preciseCollisions), Len(roughCollisions))
                   ELSE RatZero]
      /\ log' = << >>
      /\ UNCHANGED << mesh, objects, bodies, collisionResults, resolves,
                      satVars, appVars >>

\* resolveCollision's default strength, 1.0.
DefaultStrength == [n |-> 1, d |-> 1]

TrioIds == Ids \cup { BystanderId }

TrioMeshes == Meshes \cup { Bystander }

TrioMeshOf(id) == IF id = BystanderId THEN Bystander ELSE MeshOf(id)

\* Where createShapes puts the three shapes: one unit apart on the X axis.
TrioPosition(m) ==
  IF m = "m1" THEN Origin
  ELSE IF m = "m2" THEN Pt(<< 1, 0, 0 >>, 1)
  ELSE Pt(<< 2, 0, 0 >>, 1)

\* Three meshes made and put in place, none registered yet.
InitTrio ==
  /\ mesh = [m \in TrioMeshes |-> [NewMesh EXCEPT !.position = TrioPosition(m)]]
  /\ objects = << >>
  /\ bodies = << >>
  /\ collisionResults = << >>
  /\ ret = [op |-> "none", threw |-> FALSE]
  /\ log = << >>
  /\ resolves = 0
  /\ showDebugOBB = FALSE
  /\ debugMeshes = << >>
  /\ scene = { }
  /\ selectedObject = "null"
  /\ shapes = << >>
  /\ boxA = FromMesh(Cube, IdentityMatrix4)
  /\ boxB = FromMesh(Cube, IdentityMatrix4)
  /\ satAB = NoResult
  /\ satBA = NoResult

NextTrio ==
  \/ \E id \in TrioIds : AddObject(id, TrioMeshOf(id))
  \/ \E id \in TrioIds : RemoveObject(id)
  \/ CheckCollisions
  \/ \E k \in 1..Len(collisionResults) :
       ResolveCollision(k, DefaultStrength)
  \/ Reset
  \/ GetStats

SpecTrio == InitTrio /\ [][NextTrio]_vars

\* --------------------------------------------- the demo's animation frame

\* checkCollisions() as a function of the meshes, registry and index it
\* finds: what it leaves of them, its records and whether it threw.
CheckCollisionsOn(st) ==
  LET refreshed == UpdateAllObjects(
                     [mesh |-> st.mesh, objects |-> st.objects,
                      bodies |-> st.bodies, log |-> << >>], 1)
      roughCollisions == AkashicCheckCollisions(refreshed.bodies)
      narrow == NarrowPhase(refreshed.objects, roughCollisions, 1,
                  [results |-> << >>,
                   log |-> Append(refreshed.log,
                             [step |-> "broad", id1 |-> "", id2 |-> ""]),
                   threw |-> FALSE])
  IN  [mesh |-> refreshed.mesh, objects |-> refreshed.objects,
       bodies |-> refreshed.bodies, results |-> narrow.results,
       log |-> narrow.log, threw |-> narrow.threw]

\* The ids of the objects in the records.
Colliding(results) ==
  { results[k].object1 : k \in 1..Len(results) }
    \cup { results[k].object2 : k \in 1..Len(results) }

\* The places the held keys may bring a shape at x within one frame.
Steps(p) ==
  { q \in Positions : Abs(q.n[1] * p.d - p.n[1] * q.d) <= p.d * q.d }

\* Animate's reset loop: setCollisionState(false) on every shape but the
\* selected one.
ResetShapes(shown, selected) ==
  [key \in DOMAIN shown |->
     IF key # selected THEN "normal" ELSE shown[key]]

\* One frame of the demo (animate): the keys move the selected shape to p,
\* checkCollisions(), the shapes' collision states, updateUI (which calls
\* checkCollisions() and getStats() again), render.  An exception ends
\* the frame where it is thrown.
Animate(p) ==
  /\ selectedObject # "null" =>
       p \in Steps(mesh[TrioMeshOf(selectedObject)].position)
  /\ selectedObject = "null" => p = Origin
  /\ LET moved ==
           IF selectedObject = "null" THEN mesh
           ELSE [mesh EXCEPT ![TrioMeshOf(selectedObject)].position = p]
     IN  \E collisions \in { CheckCollisionsOn(
                                [mesh |-> moved, objects |-> objects,
                                 bodies |-> bodies]) } :
           /\ ret' = [op |-> "animate", threw |-> collisions.threw,
                      colliding |-> Colliding(collisions.results)]
           /\ IF collisions.threw
              THEN /\ mesh' = collisions.mesh
                   /\ objects' = collisions.objects
                   /\ bodies' = collisions.bodies
                   /\ collisionResults' = collisions.results
                   /\ log' = collisions.log
                   /\ UNCHANGED shapes
              ELSE \E again \in { CheckCollisionsOn(
                                     [mesh |-> collisions.mesh,
                                      objects |-> collisions.objects,
                                      bodies |-> collisions.bodies]) } :
                     LET cleared == ResetShapes(shapes, selectedObject)
                         hit     == Colliding(collisions.results)
                     IN  /\ shapes' = [key \in DOMAIN shapes |->
                                         IF key \in hit THEN "colliding"
                                         ELSE cleared[key]]
                         /\ objects' = again.objects
                         /\ bodies' = again.bodies
                         /\ collisionResults' = again.results
                         /\ log' = again.log
                         /\ mesh' = IF again.threw THEN again.mesh
                                    ELSE [m \in DOMAIN again.mesh |->
                                            UpdateWorldMatrix(again.mesh[m])]
  /\ UNCHANGED << resolves, satVars, debugVars, selectedObject >>

\* A click: the camera ray hits a shape, which becomes the selected one,
\* or none, which clears the selection.
Click(target) ==
  /\ selectedObject # target
  /\ selectedObject' = target
  /\ ret' = [op |-> "other", threw |-> FALSE]
  /\ log' = << >>
  /\ UNCHANGED << mesh, objects, bodies, collisionResults, resolves,
                  satVars, debugVars, shapes >>

\* A shape as createShapes leaves it: put in place, then registered (the
\* OBB from the matrixWorld the mesh was made with, the footprint and the
\* new matrixWorld from its position).
Created(id) ==
  LET placed == [NewMesh EXCEPT !.position = TrioPosition(TrioMeshOf(id))]
      added  == UpdateWorldMatrix(placed)
  IN  [mesh   |-> added,
       object |-> [id |-> id, mesh |-> TrioMeshOf(id),
                   obb |-> FromMesh(placed.geometry, placed.matrixWorld),
                   shapeType |-> "box"],
       body   |-> Footprint(id, WorldBox(added.geometry, added.matrixWorld))]

\* The demo once its constructor has run: three shapes registered, none
\* selected, none shown colliding.
InitDemo ==
  /\ mesh = [m \in TrioMeshes |->
               Created(CHOOSE id \in TrioIds : TrioMeshOf(id) = m).mesh]
  /\ objects = << Created("a").object, Created("b").object,
                  Created(BystanderId).object >>
  /\ bodies = << Created("a").body, Created("b").body,
                 Created(BystanderId).body >>
  /\ collisionResults = << >>
  /\ ret = [op |-> "none", threw |-> FALSE]
  /\ log = << >>
  /\ resolves = 0
  /\ showDebugOBB = FALSE
  /\ debugMeshes = << >>
  /\ scene = { }
  /\ selectedObject = "null"
  /\ shapes = [id \in TrioIds |-> "normal"]
  /\ boxA = FromMesh(Cube, IdentityMatrix4)
  /\ boxB = FromMesh(Cube, IdentityMatrix4)
  /\ satAB = NoResult
  /\ satBA = NoResult

NextDemo ==
  \/ \E p \in Positions : Animate(p)
  \/ \E target \in TrioIds \cup { "null" } : Click(target)

SpecDemo == InitDemo /\ [][NextDemo]_vars

\* ------------------------------------------ properties: the broad phase

\* The standard four-condition rectangle test.
FourConditions(a, b) ==
  /\ RatLess(a.x, RatAdd(b.x, b.width))
  /\ RatLess(b.x, RatAdd(a.x, a.width))
  /\ RatLess(a.y, RatAdd(b.y, b.height))
  /\ RatLess(b.y, RatAdd(a.y, a.height))

\* The pair of entries i and j of the index is among the results.
RoughReported(results, i, j) ==
  \E k \in 1..Len(results) :
    /\ results[k].id1 = bodies[i].id
    /\ results[k].id2 = bodies[j].id

\* C21: the broad-phase rectangle test reports an overlap exactly when the
\* standard four-condition test holds, for all rectangles of width and
\* depth >= 0, those of zero width or depth included.
C21_RectangleTest ==
  ret.op = "akashicCheckCollisions" =>
    \A i \in 1..Len(bodies) : \A j \in (i + 1)..Len(bodies) :
      RoughReported(ret.results, i, j) <=> FourConditions(bodies[i], bodies[j])

\* The results that pair entries i and j of the index, in either order.
RoughOf(results, i, j) ==
  { k \in 1..Len(results) :
      { results[k].id1, results[k].id2 } = { bodies[i].id, bodies[j].id } }

\* The records that pair the same two objects as record k.
RecordsLike(k) ==
  { l \in 1..Len(collisionResults) :
      { collisionResults[l].object1, collisionResults[l].object2 }
        = { collisionResults[k].object1, collisionResults[k].object2 } }

\* C22: the broad-phase pass tests every unordered pair of distinct
\* registered ids exactly once; its result holds every overlapping pair
\* exactly once, never a pair with id1 = id2 and never (a, b) together with
\* (b, a); checkCollisions() returns at most one record per unordered pair
\* and none that pairs an object with itself.
C22_EachPairOnce ==
  LET n     == Len(bodies)
      pairs == PairsFrom(1, 2, n)
      rough == AkashicCheckCollisions(bodies)
  IN  /\ \A k \in 1..Len(pairs) :
           /\ pairs[k][1] \in 1..n /\ pairs[k][2] \in 1..n
           /\ pairs[k][1] # pairs[k][2]
      /\ \A i \in 1..n : \A j \in (i + 1)..n :
           /\ Cardinality({ k \in 1..Len(pairs) :
                              { pairs[k][1], pairs[k][2] } = { i, j } }) = 1
           /\ Cardinality(RoughOf(rough, i, j))
                = IF CheckAABBCollision(bodies[i], bodies[j]).hit
                  THEN 1 ELSE 0
      /\ \A k \in 1..Len(rough) : rough[k].id1 # rough[k].id2
      /\ ret.op = "checkCollisions" =>
           \A k \in 1..Len(collisionResults) :
             /\ collisionResults[k].object1 # collisionResults[k].object2
             /\ RecordsLike(k) = { k }

\* Three registered shapes, two overlapping pairs of them reported.
C22_Witness ==
  /\ ret.op = "checkCollisions"
  /\ Len(bodies) = 3
  /\ Len(AkashicCheckCollisions(bodies)) = 2
  /\ Len(collisionResults) = 2

\* C26: in every state reachable through addObject, removeObject,
\* checkCollisions, resolveCollision and reset, getStats() reports
\* objectCount = the number of registered objects and
\* preciseCollisionCount <= roughCollisionCount, so that performanceRatio
\* never exceeds 1.
C26_StatsConsistent ==
  ret.op = "getStats" =>
    /\ ret.objectCount = Len(objects)
    /\ ret.preciseCollisionCount <= ret.roughCollisionCount
    /\ ~RatLess([n |-> 1, d |-> 1], ret.performanceRatio)

\* C30: after any sequence of addObject, removeObject, checkCollisions,
\* resolveCollision and reset, the ids with an OBB in the object registry
\* are the ids with a footprint in the broad-phase index.
C30_RegistryMatchesIndex == MapKeys(objects) = MapKeys(bodies)

\* An object removed after a collision was resolved, two others left in
\* both the registry and the index.
C30_Witness ==
  /\ resolves = 1
  /\ ret.op = "removeObject" /\ ret.found
  /\ Len(objects) = 2
  /\ Len(bodies) = 2

\* --------------------------------------------- properties: rays and points

\* The unit axis i of a box, in fifths: the direction of column i of the
\* orientation; for a box scaled to a point, whose columns are zero, the
\* world axis.
UnitAxis(obb, i) ==
  LET a == GetAxes(obb)[i]
      l == ISqrt(Dot(a, a))
  IN  IF l = 0 THEN [j \in 1..3 |-> IF j = i THEN Fifth ELSE 0]
      ELSE [j \in 1..3 |-> (a[j] * Fifth) \div l]

\* The slab of axis i: the interval of ray parameters t at which
\* origin + t * direction lies between the two faces of that axis.
Slab(obb, ray, i) ==
  LET u == UnitAxis(obb, i)
      rayToCenter == PtSub(obb.center, ray.origin)
      D == Dot(ray.direction, u)
      C == Dot(rayToCenter.n, u)
      d == rayToCenter.d
      h == obb.halfExtents[i]
  IN  IF D = 0
      THEN [miss |-> Half * Abs(C) > Fifth * d * h,
            lo |-> NegInfinity, hi |-> PosInfinity]
      ELSE LET s  == IF D < 0 THEN -1 ELSE 1
               t1 == Rat(s * (Half * C - Fifth * d * h), s * Half * d * D)
               t2 == Rat(s * (Half * C + Fifth * d * h), s * Half * d * D)
           IN  [miss |-> FALSE, lo |-> RatMin(t1, t2), hi |-> RatMax(t1, t2)]

\* What the slab method returns on the box of the given centre, half
\* extents and axis directions.
SlabHit(obb, ray) ==
  LET s  == [i \in 1..3 |-> Slab(obb, ray, i)]
      lo == RatMax(s[1].lo, RatMax(s[2].lo, s[3].lo))
      hi == RatMin(s[1].hi, RatMin(s[2].hi, s[3].hi))
      distance == IF RatLess(RatZero, lo) THEN lo ELSE hi
  IN  IF \/ \E i \in 1..3 : s[i].miss
         \/ RatLess(hi, lo)
         \/ RatLess(hi, RatZero)
      THEN [hit |-> FALSE, distance |-> RatZero, point |-> Origin]
      ELSE [hit |-> TRUE, distance |-> distance,
            point |-> PtAdd(ray.origin,
                            Pt(VScale(distance.n, ray.direction),
                               distance.d))]

\* The ray from (-5, 0, 0) along +X against the identity cube at the
\* origin hits at distance 4, in (-1, 0, 0).
ExampleRayHit ==
  IntersectsRay(FromMesh(Cube, IdentityMatrix4),
                [origin |-> Pt(<< -5, 0, 0 >>, 1),
                 direction |-> << 1, 0, 0 >>])
    = [hit |-> TRUE, distance |-> [n |-> 4, d |-> 1],
       point |-> Pt(<< -1, 0, 0 >>, 1)]

\* C23: OBB.intersectsRay returns null when the intersection of the three
\* slab intervals is empty or lies behind the ray origin, and otherwise a
\* non-negative distance (the entry distance from outside, the exit
\* distance from inside) with point = origin + direction * distance; on an
\* axis the direction is parallel to, the ray misses exactly when the
\* origin's offset exceeds the half extent.
C23_RayHit ==
  /\ ExampleRayHit
  /\ ret.op = "intersectsRay" => ret.result = SlabHit(boxA, ret.ray)

\* The registered objects the ray hits within maxDistance.
HitsWithin(ray, maxDistance) ==
  { k \in 1..Len(objects) :
      LET hit == IntersectsRay(objects[k].obb, ray)
      IN  hit.hit /\ ~RatLess(maxDistance, hit.distance) }

\* Object k is the nearest of hits, and the earliest registered of the
\* nearest.
NearestFirst(ray, hits, k) ==
  LET distance(j) == IntersectsRay(objects[j].obb, ray).distance
  IN  \A j \in hits :
        /\ ~RatLess(distance(j), distance(k))
        /\ ~RatLess(distance(k), distance(j)) => k <= j

\* C24: raycast(ray, maxDistance) returns null when no registered OBB is
\* hit at a distance <= maxDistance, and otherwise the hit of smallest
\* distance among them (the earliest registered one on ties); it changes
\* neither the registry nor any OBB.
C24_ClosestHit ==
  /\ [](ret.op = "raycast" =>
          LET hits == HitsWithin(ret.ray, ret.maxDistance)
          IN  IF hits = { } THEN ~ret.closestHit.hit
              ELSE /\ ret.closestHit.hit
                   /\ \E k \in hits :
                        LET hit == IntersectsRay(objects[k].obb, ret.ray)
                        IN  /\ ret.closestHit.id = objects[k].id
                            /\ ret.closestHit.distance = hit.distance
                            /\ ret.closestHit.point = hit.point
                            /\ NearestFirst(ret.ray, hits, k))
  /\ [][ret'.op = "raycast" => objects' = objects /\ bodies' = bodies]_vars

\* Two registered boxes hit at the same distance: the first registered is
\* returned.
C24_Witness ==
  /\ ret.op = "raycast"
  /\ Len(objects) = 2
  /\ HitsWithin(ret.ray, ret.maxDistance) = { 1, 2 }
  /\ IntersectsRay(objects[1].obb, ret.ray).distance
       = IntersectsRay(objects[2].obb, ret.ray).distance
  /\ ret.closestHit.hit
  /\ ret.closestHit.id = objects[1].id

PointProjection(p, w) == Rat(Fifth * Half * Dot(p.n, w), p.d)

\* The rational number of units x / d lies in [max of the minima, min of
\* the maxima] of the two projections.
InOverlapInterval(x, p1, p2) ==
  /\ ~RatLess(x, Rat(p1.min, p1.d)) /\ ~RatLess(x, Rat(p2.min, p2.d))
  /\ ~RatLess(Rat(p1.max, p1.d), x) /\ ~RatLess(Rat(p2.max, p2.d), x)

\* The axis intersects kept as separating axis, before its sign was
\* adjusted: the sign does not change the line through a centre, and
\* calculateContactPoint is handed the axis that was tested.
ContactOnIntervals(this, other, result) ==
  \E w \in { result.separatingAxis, VNeg(result.separatingAxis) } :
    LET p1 == ProjectOnAxis(this, w)
        p2 == ProjectOnAxis(other, w)
        x  == PointProjection(result.contactPoint, w)
    IN  /\ result.contactPoint = CalculateContactPoint(this, other, w)
        /\ x = RatMin(Rat(p1.max, p1.d), Rat(p2.max, p2.d))
        /\ InOverlapInterval(x, p1, p2)

\* C27: for every colliding result the contact point lies on the overlap
\* region: it is the point on the separating axis through the centre of
\* the box whose upper projection bound is smaller, at that box's
\* projection boundary; its projection on the separating axis lies inside
\* the intersection of the two projection intervals, and the point is
\* contained in both boxes (containsPoint is true for A and B).
C27_ContactPointInBothBoxes ==
  satAB.isColliding =>
    /\ ContactOnIntervals(boxA, boxB, satAB)
    /\ ContainsPoint(boxA, satAB.contactPoint)
    /\ ContainsPoint(boxB, satAB.contactPoint)

\* C27 (amended): for every colliding result the contact point lies on the
\* line along the tested axis through the centre of the box whose upper
\* projection bound is smaller, at that box's upper bound; its projection
\* on the axis is min(max1, max2), inside the intersection of the two
\* projection intervals.  (It need not lie in either box.)
C27_ContactPointOnIntervals ==
  satAB.isColliding => ContactOnIntervals(boxA, boxB, satAB)

\* Two unscaled boxes collide and the contact point, at the upper bound of
\* the second box on a cross-product axis, lies outside that box.
C27_Witness ==
  /\ satAB.isColliding
  /\ ContactOnIntervals(boxA, boxB, satAB)
  /\ \A i \in 1..3 : Dot(GetAxes(boxA)[i], GetAxes(boxA)[i]) = Fifth * Fifth
  /\ \A i \in 1..3 : Dot(GetAxes(boxB)[i], GetAxes(boxB)[i]) = Fifth * Fifth
  /\ ContainsPoint(boxA, satAB.contactPoint)
  /\ ~ContainsPoint(boxB, satAB.contactPoint)

\* ----------------------------------------- properties: the debug display

\* The debug meshes in the cache.
CachedDebugMeshes == { debugMeshes[k].mesh : k \in 1..Len(debugMeshes) }

\* C28: in every state reachable through addObject, removeObject,
\* toggleDebugOBB and reset: while the debug display is off no debug mesh
\* is cached or in the scene; while it is on exactly the registered
\* objects have a cached debug mesh and each cached mesh is in the scene;
\* no debug mesh of a removed object remains in the scene.
C28_DebugMeshesFollowRegistry ==
  /\ ~showDebugOBB => debugMeshes = << >> /\ scene = { }
  /\ showDebugOBB =>
       /\ MapKeys(debugMeshes) = MapKeys(objects)
       /\ CachedDebugMeshes \subseteq scene
  /\ scene \subseteq CachedDebugMeshes

\* ------------------------------------------------ properties: the demo

\* C29: after each animation frame of the demo a shape is shown colliding
\* exactly when it belongs to a collision that frame's checkCollisions()
\* returned; a shape that has stopped colliding is shown non-colliding
\* again on the next frame, whether or not it is selected.
C29_ShownIffColliding ==
  (ret.op = "animate" /\ ~ret.threw) =>
    \A key \in DOMAIN shapes :
      shapes[key] = "colliding" <=> key \in ret.colliding

====
